---------------------------- MODULE Spec2Model ----------------------------
(***************************************************************************)
(* Model of run.py: the Krisha.kz listing pipeline (scrape, parse, filter, *)
(* score, rank, publish).                                                  *)
(*                                                                         *)
(* Text is a sequence of one-character tokens, all written in ASCII:       *)
(* every Cyrillic letter is one Latin token (k o m for the room word, ya   *)
(* for the last letter of the keyword Abaya), the Latin letter m of the    *)
(* area unit is "m_lat", the superscript two is "sq" and the tenge sign    *)
(* is "tg".                                                                *)
(*                                                                         *)
(* float64 is modelled as binary floating point on the integer grid with   *)
(* MantissaBits significant bits and round-half-even.  Scores, which live  *)
(* in [-3, 4], are kept in units of 1/ScoreScale; areas in 1/SqmScale.     *)
(* An absent value (NaN) is the empty sequence, a present one <<v>>.       *)
(***************************************************************************)
EXTENDS Integers, Sequences, FiniteSets, TLC

VARIABLES
    rooms_input,      \* text typed at "Rooms desired"
    location_input,   \* text typed at "Preferred district"
    price_input,      \* text typed at "Maximum budget"
    max_price,        \* budget ceiling after conversion
    all_data,         \* scraped cards, in scrape order
    df,               \* the DataFrame: a sequence of rows
    sheet,            \* today's worksheet: a sequence of rows
    summary,          \* the three printed averages
    top,              \* the printed top listings
    pc                \* position in the script

vars == <<rooms_input, location_input, price_input, max_price, all_data,
          df, sheet, summary, top, pc>>

--------------------------------------------------------------------------
(* Bounds of the model *)

MaxListings == 3

MantissaBits == 18

ScoreScale == 1000

SqmScale == 10

MaxIqrValues == 5

--------------------------------------------------------------------------
(* Absent values *)

NaN == <<>>

Some(v) == <<v>>

IsNaN(x) == x = <<>>

Val(x) == x[1]

--------------------------------------------------------------------------
(* Generic sequence helpers *)

RECURSIVE SelectRows(_, _)
SelectRows(rows, keep) ==
    IF rows = <<>> THEN <<>>
    ELSE IF keep[1]
         THEN <<Head(rows)>> \o SelectRows(Tail(rows), Tail(keep))
         ELSE SelectRows(Tail(rows), Tail(keep))

--------------------------------------------------------------------------
(* Text *)

Digits == {"0", "1", "2", "3", "4", "5", "6", "7", "8", "9"}

DigitVal == ("0" :> 0) @@ ("1" :> 1) @@ ("2" :> 2) @@ ("3" :> 3) @@ ("4" :> 4)
            @@ ("5" :> 5) @@ ("6" :> 6) @@ ("7" :> 7) @@ ("8" :> 8) @@ ("9" :> 9)

IsDigit(c) == c \in Digits

IsSpace(c) == c = " "

LowerMap == [A |-> "a", D |-> "d", K |-> "k", M |-> "m", O |-> "o", S |-> "s"]

Lower(c) == IF c \in DOMAIN LowerMap THEN LowerMap[c] ELSE c

LowerText(s) == [i \in 1..Len(s) |-> Lower(s[i])]

RECURSIVE DigitsToInt(_)
DigitsToInt(s) ==
    IF s = <<>> THEN 0
    ELSE DigitsToInt(SubSeq(s, 1, Len(s) - 1)) * 10 + DigitVal[s[Len(s)]]

AllDigits(s) == \A i \in 1..Len(s) : IsDigit(s[i])

\* x in y for Python strings
Contains(text, sub) ==
    \E i \in 0..(Len(text) - Len(sub)) :
        \A k \in 1..Len(sub) : text[i + k] = sub[k]

\* re.search for a pattern made of literal characters and the wildcard "."
RegexSearch(pat, text) ==
    \E i \in 0..(Len(text) - Len(pat)) :
        \A k \in 1..Len(pat) : pat[k] = "." \/ text[i + k] = pat[k]

\* int(text): an optional sign and one or more digits; <<>> stands for ValueError
IntParse(s) ==
    LET body == IF s # <<>> /\ s[1] \in {"-", "+"} THEN Tail(s) ELSE s
    IN  IF body = <<>> \/ ~AllDigits(body) THEN NaN
        ELSE IF s[1] = "-" THEN Some(0 - DigitsToInt(body))
        ELSE Some(DigitsToInt(body))

--------------------------------------------------------------------------
(* float64, with MantissaBits significant bits on the integer grid *)

RECURSIVE BitLen(_)
BitLen(x) == IF x = 0 THEN 0 ELSE 1 + BitLen(x \div 2)

Abs(x) == IF x < 0 THEN 0 - x ELSE x

\* the nearest multiple of unit to x >= 0, ties to the even multiple
NearestEven(x, unit) ==
    LET q == x \div unit
        r == x % unit
    IN  IF 2 * r < unit THEN q * unit
        ELSE IF 2 * r > unit THEN (q + 1) * unit
        ELSE IF q % 2 = 0 THEN q * unit ELSE (q + 1) * unit

RoundMag(x) ==
    IF BitLen(x) <= MantissaBits THEN x
    ELSE NearestEven(x, 2^(BitLen(x) - MantissaBits))

\* rounding of an exact integer result to a representable value
Round(x) == IF x < 0 THEN 0 - RoundMag(0 - x) ELSE RoundMag(x)

FAdd(a, b) == Round(a + b)

FSub(a, b) == Round(a - b)

FMul(a, b) == Round(a * b)

\* a / b for b > 0: the quotient to the nearest grid point, ties to even
FDiv(a, b) ==
    LET q == Abs(a) \div b
        r == Abs(a) % b
        n == IF 2 * r < b THEN q
             ELSE IF 2 * r > b THEN q + 1
             ELSE IF q % 2 = 0 THEN q ELSE q + 1
    IN  IF a < 0 THEN 0 - RoundMag(n) ELSE RoundMag(n)

\* (a * k) / b for a, k >= 0 and b > 0 without forming a * k
FMulDiv(a, k, b) == FAdd((a \div b) * k, FDiv((a % b) * k, b))

\* the largest g with g * g <= x, found bit by bit (g stays below 2^16)
RECURSIVE SqrtBits(_, _, _)
SqrtBits(x, g, b) ==
    IF b < 0 THEN g
    ELSE LET c == g + 2^b
         IN  IF c <= 46340 /\ c * c <= x
             THEN SqrtBits(x, c, b - 1)
             ELSE SqrtBits(x, g, b - 1)

\* sqrt to the nearest grid point
FSqrt(x) ==
    LET g == SqrtBits(x, 0, 15)
    IN  IF x - g * g > g THEN g + 1 ELSE g

\* ndarray.sum(): left-to-right accumulation, each partial sum rounded
RECURSIVE FSum(_)
FSum(s) == IF s = <<>> THEN 0 ELSE FAdd(FSum(SubSeq(s, 1, Len(s) - 1)), s[Len(s)])

--------------------------------------------------------------------------
(* Field extraction *)

Kom == <<"k", "o", "m">>

\* the end of the run of characters of class cls that starts at i
RECURSIVE RunEnd(_, _, _)
RunEnd(s, i, cls) ==
    IF i < Len(s) /\ s[i + 1] \in cls THEN RunEnd(s, i + 1, cls) ELSE i

\* \s*[- ]?\s* : white space holding at most one dash
IsRoomSeparator(s) ==
    /\ \A i \in 1..Len(s) : IsSpace(s[i]) \/ s[i] = "-"
    /\ Cardinality({i \in 1..Len(s) : s[i] = "-"}) <= 1

\* (\d+)\s*[- ]?\s*kom matched with the digits starting at i
RoomMatchAt(s, i) ==
    /\ IsDigit(s[i])
    /\ LET e == RunEnd(s, i, Digits)
           f == IF e < Len(s) /\ s[e + 1] \in {" ", "-"}
                THEN RunEnd(s, e + 1, {" ", "-"}) ELSE e
       IN  /\ IsRoomSeparator(SubSeq(s, e + 1, f))
           /\ f + 3 <= Len(s)
           /\ SubSeq(s, f + 1, f + 3) = Kom

\* df["header"].str.extract(...) and pd.to_numeric(..., errors="coerce")
ExtractRooms(header) ==
    LET hits == {i \in 1..Len(header) : RoomMatchAt(header, i)}
    IN  IF hits = {} THEN NaN
        ELSE LET i == CHOOSE h \in hits : \A g \in hits : h <= g
             IN  Some(DigitsToInt(SubSeq(header, i, RunEnd(header, i, Digits))))

RECURSIVE KeepDigits(_)
KeepDigits(s) ==
    IF s = <<>> THEN <<>>
    ELSE IF IsDigit(Head(s)) THEN <<Head(s)>> \o KeepDigits(Tail(s))
    ELSE KeepDigits(Tail(s))

\* str.replace(r"[^\d]", "") and pd.to_numeric(..., errors="coerce")
PriceClean(price) ==
    LET d == KeepDigits(price)
    IN  IF d = <<>> THEN NaN ELSE Some(DigitsToInt(d))

\* the characters s[i..e] read \d+\.?\d*
IsDecimal(s) ==
    /\ s # <<>>
    /\ IsDigit(s[1])
    /\ Cardinality({i \in 1..Len(s) : s[i] = "."}) <= 1

\* (\d+\.?\d*)\s?[m]sq matched with the number starting at i
SqmMatchAt(s, i) ==
    /\ IsDigit(s[i])
    /\ LET e == RunEnd(s, i, Digits \cup {"."})
           u == IF e < Len(s) /\ IsSpace(s[e + 1]) THEN e + 2 ELSE e + 1
       IN  /\ IsDecimal(SubSeq(s, i, e))
           /\ u + 1 <= Len(s)
           /\ s[u] \in {"m_lat", "m"}
           /\ s[u + 1] = "sq"

\* the value of a decimal numeral, in units of 1/SqmScale (decimals past the
\* first lie below that grid)
DecimalValue(s) ==
    LET dots == {i \in 1..Len(s) : s[i] = "."}
        dot  == IF dots = {} THEN Len(s) + 1 ELSE CHOOSE i \in dots : TRUE
        tenths == IF dot < Len(s) THEN DigitVal[s[dot + 1]] ELSE 0
    IN  DigitsToInt(SubSeq(s, 1, dot - 1)) * SqmScale + (tenths * SqmScale) \div 10

\* df["combined_text"].str.extract(...) and pd.to_numeric(..., errors="coerce")
ExtractSqm(text) ==
    LET hits == {i \in 1..Len(text) : SqmMatchAt(text, i)}
    IN  IF hits = {} THEN NaN
        ELSE LET i == CHOOSE h \in hits : \A g \in hits : h <= g
             IN  Some(DecimalValue(SubSeq(text, i, RunEnd(text, i, Digits \cup {"."}))))

--------------------------------------------------------------------------
(* The a-card elements the scraper can meet *)

Almaly == <<"A", "l", "m", "a", "l", "y">>

Medeu == <<"M", "e", "d", "e", "u">>

Auezov == <<"A", "u", "e", "z", "o", "v">>

Card(header, price, location, link) ==
    [header |-> header, price |-> price, location |-> location, link |-> link,
     combined_text |-> header \o <<" ">> \o price \o <<" ">> \o location]

Cards == {
    Card(<<"2", "-", "k", "o", "m", ",", " ", "4", "0", ".", "5", " ", "m", "sq">>,
         <<"8", " ", "1", "0", "0", " ", "0", "0", "0", " ", "tg">>, Almaly, "L1"),
    Card(<<"2", " ", "k", "o", "m", ",", " ", "4", "0", " ", "m_lat", "sq">>,
         <<"8", " ", "2", "0", "0", " ", "0", "0", "0", " ", "tg">>, Medeu, "L2"),
    Card(<<"2", "k", "o", "m", ",", " ", "4", "0", "m", "sq">>,
         <<"8", "4", "0", "0", "0", "0", "0", "tg">>, Almaly, "L3"),
    Card(<<"2", "-", "k", "o", "m", ",", " ", "4", "0", " ", "m", "sq">>,
         <<"8", "0", "0", "0", "0", "8", "0", "tg">>, Auezov, "L4"),
    Card(<<"2", "-", "k", "o", "m", ",", " ", "4", "0", " ", "m", "sq">>,
         <<"8", "0", "0", "0", "0", "8", "0", "tg">>, Auezov, "L5"),
    Card(<<"2", "-", "k", "o", "m", ",", " ", "4", "0", " ", "m", "sq">>,
         <<"8", "0", "0", "0", "0", "8", "0", "tg">>, Auezov, "L6"),
    Card(<<"d", "o", "m", ",", " ", "4", "0", " ", "m", "sq">>,
         <<"d", "o", "g">>, Auezov, "L7"),
    Card(<<"3", "-", "k", "o", "m", ",", " ", "4", "0", " ", "m", "sq">>,
         <<"2", "0", "0", "0", "0", "0", "0", "tg">>, Medeu, "L1"),
    Card(<<"2", "-", "k", "o", "m", ",", " ", "3", "0", "0", "0", " ", "m", "sq">>,
         <<"6", "0", "0", "0", "0", "0", "0", "0", "0", "tg">>, Medeu, "L8"),
    Card(<<"2", "-", "k", "o", "m", ",", " ", "0", " ", "m", "sq">>,
         <<"8", "0", "0", "0", "0", "0", "0", "tg">>, Almaly, "L9") }

RoomsInputs == { <<>>, <<"2">>, <<"x">> }

LocationInputs == { <<>>, <<"M", "e", "d">>, <<".">> }

PriceInputs == { <<>>, <<"x">>, <<"8", "2", "0", "0", "0", "0", "0">> }

--------------------------------------------------------------------------
(* Program constants *)

DefaultMaxPrice == 500000000

SanityFloor == 100000

TopLimit == 5

CenterWeight == 3

center_keywords == <<
    <<"S", "a", "m", "a", "l">>,
    <<"D", "o", "s", "t", "y", "k">>,
    <<"A", "b", "a", "ya">>,
    <<"K", "o", "k", "t", "e", "m">>,
    <<"O", "r", "b", "i", "t", "a">>,
    <<"M", "e", "d", "e", "u">> >>

HeaderRow == <<"header", "price", "location", "link", "sqm", "price_per_m2",
               "z_score", "liquidity_score", "center_score", "investment_score">>

\* what an earlier run of the same day left in the worksheet
StaleSheet == [header |-> HeaderRow, rows |-> <<"stale">>]

--------------------------------------------------------------------------
(* Column and frame operations *)

WithColumn(r, name, v) == (name :> v) @@ r

\* pd.DataFrame(all_data, columns=[...]): the index is 0, 1, 2, ...
Frame(data) ==
    [i \in 1..Len(data) |-> WithColumn(data[i], "index", i - 1)]

\* max_price after the try/except around int(price_input)
BudgetCeiling(text) ==
    IF IsNaN(IntParse(text)) THEN DefaultMaxPrice ELSE Val(IntParse(text))

\* df["rooms"] == int(rooms_input); a comparison with NaN is False
RoomsEqual(r, target) == ~IsNaN(r.rooms) /\ Val(r.rooms) = target

\* the slip keep="last"
DropDuplicatesKeepLast(rows) ==
    SelectRows(rows, [i \in 1..Len(rows) |->
                         \A j \in (i + 1)..Len(rows) : rows[j].link # rows[i].link])

\* drop_duplicates(subset=["link"]): keep="first"
DropDuplicates(rows) ==
    SelectRows(rows, [i \in 1..Len(rows) |->
                         \A j \in 1..(i - 1) : rows[j].link # rows[i].link])

\* the boolean mask of str.lower().str.contains(location_input.lower(), na=False)
LocationMatches(r, text) == RegexSearch(LowerText(text), LowerText(r.location))

\* the slip "<" for "<="
WithinBudgetStrict(r, ceiling) == ~IsNaN(r.price_clean) /\ Val(r.price_clean) < ceiling

\* df["price_clean"] <= max_price; a comparison with NaN is False
WithinBudget(r, ceiling) == ~IsNaN(r.price_clean) /\ Val(r.price_clean) <= ceiling

BudgetFilter(rows, ceiling) ==
    SelectRows(rows, [i \in 1..Len(rows) |-> WithinBudget(rows[i], ceiling)])

\* df["sqm"] > 0
PositiveArea(r) == ~IsNaN(r.sqm) /\ Val(r.sqm) > 0

\* df["price_clean"] / df["sqm"]
PricePerM2(r) == FMulDiv(Val(r.price_clean), SqmScale, Val(r.sqm))

\* df["price_per_m2"] > 100000
AboveFloor(r) == r.price_per_m2 > SanityFloor

Ppa(rows) == [i \in 1..Len(rows) |-> rows[i].price_per_m2]

--------------------------------------------------------------------------
(* Quartiles and the IQR filter *)

RECURSIVE Insert(_, _)
Insert(sorted, v) ==
    IF sorted = <<>> THEN <<v>>
    ELSE IF v <= Head(sorted) THEN <<v>> \o sorted
    ELSE <<Head(sorted)>> \o Insert(Tail(sorted), v)

RECURSIVE SortAscending(_)
SortAscending(s) ==
    IF s = <<>> THEN <<>> ELSE Insert(SortAscending(Tail(s)), Head(s))

\* Series.quantile(k/4) of a non-empty series, linear interpolation, times 4:
\* the value at position (n-1)*k/4 of the sorted values
Quantile4(values, k) ==
    LET x  == SortAscending(values)
        h  == (Len(x) - 1) * k
        lo == h \div 4 + 1
        hi == IF lo < Len(x) THEN lo + 1 ELSE lo
    IN  4 * x[lo] + (x[hi] - x[lo]) * (h % 4)

\* the fence multiplier 1.5, in halves
FenceHalves == 3

\* the slip 0.5*IQR for 1.5*IQR
InsideFencesHalf(v, q1, q3) ==
    /\ 8 * v >= 2 * q1 - (q3 - q1)
    /\ 8 * v <= 2 * q3 + (q3 - q1)

\* price_per_m2 >= Q1 - 1.5*IQR and <= Q3 + 1.5*IQR, compared in eighths
InsideFences(v, q1, q3) ==
    /\ 8 * v >= 2 * q1 - FenceHalves * (q3 - q1)
    /\ 8 * v <= 2 * q3 + FenceHalves * (q3 - q1)

\* on an empty frame both quantiles are NaN and the mask is empty
IQRFilter(rows) ==
    IF rows = <<>> THEN <<>>
    ELSE LET q1 == Quantile4(Ppa(rows), 1)
             q3 == Quantile4(Ppa(rows), 3)
         IN  SelectRows(rows, [i \in 1..Len(rows) |->
                                  InsideFences(rows[i].price_per_m2, q1, q3)])

--------------------------------------------------------------------------
(* Scoring *)

\* Series.mean(): NaN on an empty series
Mean(values) ==
    IF values = <<>> THEN NaN ELSE Some(FDiv(FSum(values), Len(values)))

\* Series.std(): ddof = 1, so NaN below two values; the squared distances
\* are taken from the rounded mean
Std(values) ==
    IF Len(values) < 2 THEN NaN
    ELSE LET avg == Val(Mean(values))
             sqr == [i \in 1..Len(values) |->
                        FMul(FSub(avg, values[i]), FSub(avg, values[i]))]
         IN  Some(FSqrt(FDiv(FSum(sqr), Len(values) - 1)))

\* "x and not np.isnan(x)": a NaN is truthy, a zero is not
Truthy(x) == ~IsNaN(x) /\ Val(x) # 0

ZScore(r, mean, std) ==
    IF Truthy(std)
    THEN FDiv(FSub(r.price_per_m2, Val(mean)) * ScoreScale, Val(std))
    ELSE 0

Max(values) ==
    IF values = <<>> THEN NaN
    ELSE Some(CHOOSE v \in {values[i] : i \in 1..Len(values)} :
                  \A i \in 1..Len(values) : values[i] <= v)

\* the slip of dividing the price itself by the maximum
LiquidityScoreRaw(r, max_m2) ==
    IF Truthy(max_m2)
    THEN FDiv(r.price_per_m2 * ScoreScale, Val(max_m2))
    ELSE 0

LiquidityScore(r, max_m2) ==
    IF Truthy(max_m2)
    THEN FDiv(FSub(Val(max_m2), r.price_per_m2) * ScoreScale, Val(max_m2))
    ELSE 0

CenterScore(r) ==
    IF \E k \in 1..Len(center_keywords) :
           Contains(LowerText(r.location), LowerText(center_keywords[k]))
    THEN 1 ELSE 0

\* the slip of leaving the weight of the centre out
InvestmentScoreUnweighted(r) ==
    FAdd(FAdd(r.undervaluation_score, r.liquidity_score),
         r.center_score * ScoreScale)

InvestmentScore(r) ==
    FAdd(FAdd(r.undervaluation_score, r.liquidity_score),
         CenterWeight * r.center_score * ScoreScale)

NumericMaybe == {"rooms", "price_clean", "sqm"}

\* df.fillna(0)
Fillna(r) ==
    [c \in DOMAIN r |-> IF c \in NumericMaybe /\ IsNaN(r[c]) THEN Some(0) ELSE r[c]]

--------------------------------------------------------------------------
(* Ranking and publishing *)

IndexOrders(n) ==
    {p \in [1..n -> 1..n] : \A i, j \in 1..n : i # j => p[i] # p[j]}

Descending(rows) ==
    \A i \in 1..(Len(rows) - 1) :
        rows[i].investment_score >= rows[i + 1].investment_score

\* sort_values(by="investment_score", ascending=False) with the default
\* kind="quicksort", which is not stable: every descending arrangement
SortValues(rows) ==
    {s \in {[i \in 1..Len(rows) |-> rows[p[i]]] : p \in IndexOrders(Len(rows))} :
        Descending(s)}

PublishedRow(r) ==
    [header |-> r.header, price |-> r.price, location |-> r.location,
     link |-> r.link, sqm |-> r.sqm, price_per_m2 |-> r.price_per_m2,
     z_score |-> r.z_score, liquidity_score |-> r.liquidity_score,
     center_score |-> r.center_score, investment_score |-> r.investment_score]

Min2(a, b) == IF a <= b THEN a ELSE b

\* df.head(TOP_N)
TopRows(rows) == SubSeq(rows, 1, Min2(TopLimit, Len(rows)))

--------------------------------------------------------------------------
(* The script, statement by statement, from the point where country and   *)
(* city have passed validation (lines 62-68) and the worksheet is open.    *)
(* A card that lacks one of its elements is skipped by the scraper and     *)
(* never reaches all_data.                                                 *)

Init ==
    /\ rooms_input \in RoomsInputs
    /\ location_input \in LocationInputs
    /\ price_input \in PriceInputs
    /\ max_price = 0
    /\ all_data = <<>>
    /\ df = <<>>
    /\ sheet = StaleSheet
    /\ summary = <<>>
    /\ top = <<>>
    /\ pc = "budget"

\* lines 75-78
BudgetConversion ==
    /\ pc = "budget"
    /\ max_price' = BudgetCeiling(price_input)
    /\ pc' = "scrape"
    /\ UNCHANGED <<rooms_input, location_input, price_input, all_data, df,
                   sheet, summary, top>>

\* lines 163-183: one card of a page appended to all_data
ScrapeCard ==
    /\ pc = "scrape"
    /\ Len(all_data) < MaxListings
    /\ \E card \in Cards : all_data' = Append(all_data, card)
    /\ UNCHANGED <<rooms_input, location_input, price_input, max_price, df,
                   sheet, summary, top, pc>>

\* lines 113-152, 186: the page loop ends
ScrapeDone ==
    /\ pc = "scrape"
    /\ pc' = "frame"
    /\ UNCHANGED <<rooms_input, location_input, price_input, max_price,
                   all_data, df, sheet, summary, top>>

\* lines 200-215
BuildFrame ==
    /\ pc = "frame"
    /\ df' = Frame(all_data)
    /\ pc' = IF all_data = <<>> THEN "exit" ELSE "rooms"
    /\ UNCHANGED <<rooms_input, location_input, price_input, max_price,
                   all_data, sheet, summary, top>>

\* lines 220-233
RoomsColumn ==
    /\ pc = "rooms"
    /\ df' = [i \in 1..Len(df) |->
                 WithColumn(df[i], "rooms", ExtractRooms(df[i].header))]
    /\ pc' = "room_filter"
    /\ UNCHANGED <<rooms_input, location_input, price_input, max_price,
                   all_data, sheet, summary, top>>

\* lines 237-241: int(rooms_input) raises ValueError on text that is no integer
RoomFilter ==
    /\ pc = "room_filter"
    /\ IF rooms_input = <<>>
       THEN /\ df' = df
            /\ pc' = "dedup"
       ELSE IF IsNaN(IntParse(rooms_input))
       THEN /\ df' = df
            /\ pc' = "error"
       ELSE /\ df' = SelectRows(df, [i \in 1..Len(df) |->
                         RoomsEqual(df[i], Val(IntParse(rooms_input)))])
            /\ pc' = "dedup"
    /\ UNCHANGED <<rooms_input, location_input, price_input, max_price,
                   all_data, sheet, summary, top>>

\* line 249
Deduplicate ==
    /\ pc = "dedup"
    /\ df' = DropDuplicates(df)
    /\ pc' = "location"
    /\ UNCHANGED <<rooms_input, location_input, price_input, max_price,
                   all_data, sheet, summary, top>>

\* lines 263-270
LocationFilter ==
    /\ pc = "location"
    /\ df' = IF location_input = <<>> THEN df
             ELSE SelectRows(df, [i \in 1..Len(df) |->
                                     LocationMatches(df[i], location_input)])
    /\ pc' = "price"
    /\ UNCHANGED <<rooms_input, location_input, price_input, max_price,
                   all_data, sheet, summary, top>>

\* lines 282-301
PriceFilter ==
    /\ pc = "price"
    /\ df' = BudgetFilter([i \in 1..Len(df) |->
                 WithColumn(df[i], "price_clean", PriceClean(df[i].price))],
                 max_price)
    /\ pc' = "sqm"
    /\ UNCHANGED <<rooms_input, location_input, price_input, max_price,
                   all_data, sheet, summary, top>>

\* lines 315-329
SqmColumn ==
    /\ pc = "sqm"
    /\ df' = [i \in 1..Len(df) |->
                 WithColumn(df[i], "sqm", ExtractSqm(df[i].combined_text))]
    /\ pc' = "area"
    /\ UNCHANGED <<rooms_input, location_input, price_input, max_price,
                   all_data, sheet, summary, top>>

\* lines 340-345
AreaFilter ==
    /\ pc = "area"
    /\ LET kept == SelectRows(df, [i \in 1..Len(df) |-> PositiveArea(df[i])])
       IN  df' = [i \in 1..Len(kept) |->
                     WithColumn(kept[i], "price_per_m2", PricePerM2(kept[i]))]
    /\ pc' = "floor"
    /\ UNCHANGED <<rooms_input, location_input, price_input, max_price,
                   all_data, sheet, summary, top>>

\* line 354
FloorFilter ==
    /\ pc = "floor"
    /\ df' = SelectRows(df, [i \in 1..Len(df) |-> AboveFloor(df[i])])
    /\ pc' = "iqr"
    /\ UNCHANGED <<rooms_input, location_input, price_input, max_price,
                   all_data, sheet, summary, top>>

\* lines 369-384
OutlierFilter ==
    /\ pc = "iqr"
    /\ df' = IQRFilter(df)
    /\ pc' = "z_score"
    /\ UNCHANGED <<rooms_input, location_input, price_input, max_price,
                   all_data, sheet, summary, top>>

\* lines 404-417
ZScoreColumns ==
    /\ pc = "z_score"
    /\ LET mean == Mean(Ppa(df))
           std  == Std(Ppa(df))
       IN  df' = [i \in 1..Len(df) |->
                     WithColumn(
                         WithColumn(df[i], "z_score", ZScore(df[i], mean, std)),
                         "undervaluation_score", 0 - ZScore(df[i], mean, std))]
    /\ pc' = "liquidity"
    /\ UNCHANGED <<rooms_input, location_input, price_input, max_price,
                   all_data, sheet, summary, top>>

\* lines 419-425
LiquidityColumn ==
    /\ pc = "liquidity"
    /\ LET max_m2 == Max(Ppa(df))
       IN  df' = [i \in 1..Len(df) |->
                     WithColumn(df[i], "liquidity_score",
                                LiquidityScore(df[i], max_m2))]
    /\ pc' = "center"
    /\ UNCHANGED <<rooms_input, location_input, price_input, max_price,
                   all_data, sheet, summary, top>>

\* lines 442-456
CenterColumn ==
    /\ pc = "center"
    /\ df' = [i \in 1..Len(df) |->
                 WithColumn(df[i], "center_score", CenterScore(df[i]))]
    /\ pc' = "investment"
    /\ UNCHANGED <<rooms_input, location_input, price_input, max_price,
                   all_data, sheet, summary, top>>

\* lines 469-479
InvestmentColumn ==
    /\ pc = "investment"
    /\ df' = [i \in 1..Len(df) |->
                 Fillna(WithColumn(df[i], "investment_score",
                                   InvestmentScore(df[i])))]
    /\ pc' = "sort"
    /\ UNCHANGED <<rooms_input, location_input, price_input, max_price,
                   all_data, sheet, summary, top>>

\* lines 483-486
Sort ==
    /\ pc = "sort"
    /\ df' \in SortValues(df)
    /\ pc' = "publish"
    /\ UNCHANGED <<rooms_input, location_input, price_input, max_price,
                   all_data, sheet, summary, top>>

\* lines 500-518: clear(), append_row(header), append_rows(rows)
Publish ==
    /\ pc = "publish"
    /\ sheet' = [header |-> HeaderRow,
                 rows |-> [i \in 1..Len(df) |-> PublishedRow(df[i])]]
    /\ pc' = "summary"
    /\ UNCHANGED <<rooms_input, location_input, price_input, max_price,
                   all_data, df, summary, top>>

\* lines 545-568
Report ==
    /\ pc = "summary"
    /\ summary' = [avg_price |-> Mean([i \in 1..Len(df) |-> Val(df[i].price_clean)]),
                   avg_sqm |-> Mean([i \in 1..Len(df) |-> Val(df[i].sqm)]),
                   avg_price_m2 |-> Mean(Ppa(df))]
    /\ top' = TopRows(df)
    /\ pc' = "done"
    /\ UNCHANGED <<rooms_input, location_input, price_input, max_price,
                   all_data, df, sheet>>

Next ==
    \/ BudgetConversion
    \/ ScrapeCard
    \/ ScrapeDone
    \/ BuildFrame
    \/ RoomsColumn
    \/ RoomFilter
    \/ Deduplicate
    \/ LocationFilter
    \/ PriceFilter
    \/ SqmColumn
    \/ AreaFilter
    \/ FloorFilter
    \/ OutlierFilter
    \/ ZScoreColumns
    \/ LiquidityColumn
    \/ CenterColumn
    \/ InvestmentColumn
    \/ Sort
    \/ Publish
    \/ Report

Spec == Init /\ [][Next]_vars

--------------------------------------------------------------------------
(* The IQR stage applied to a frame and then to its own output *)

IqrValues == {200001, 200002, 200004}

IqrFrames ==
    UNION {{[i \in 1..n |-> [index |-> i - 1, price_per_m2 |-> f[i]]] :
               f \in [1..n -> IqrValues]} : n \in 0..MaxIqrValues}

InitIqr ==
    /\ rooms_input = <<>>
    /\ location_input = <<>>
    /\ price_input = <<>>
    /\ max_price = DefaultMaxPrice
    /\ all_data = <<>>
    /\ df \in IqrFrames
    /\ sheet = StaleSheet
    /\ summary = <<>>
    /\ top = <<>>
    /\ pc = "iqr_in"

\* lines 369-384, first application
IqrOnce ==
    /\ pc = "iqr_in"
    /\ df' = IQRFilter(df)
    /\ pc' = "iqr_once"
    /\ UNCHANGED <<rooms_input, location_input, price_input, max_price,
                   all_data, sheet, summary, top>>

\* lines 369-384, applied again to the frame it produced
IqrTwice ==
    /\ pc = "iqr_once"
    /\ df' = IQRFilter(df)
    /\ pc' = "iqr_twice"
    /\ UNCHANGED <<rooms_input, location_input, price_input, max_price,
                   all_data, sheet, summary, top>>

NextIqr == IqrOnce \/ IqrTwice

SpecIqr == InitIqr /\ [][NextIqr]_vars

--------------------------------------------------------------------------
(* Properties *)

Published == pc \in {"summary", "done"}

Scored == pc \in {"center", "investment", "sort", "publish", "summary", "done"}

InFrame(i) == \E k \in 1..Len(df) : df[k].index = i - 1

PassesRoomFilter(card) ==
    \/ rooms_input = <<>>
    \/ /\ ~IsNaN(IntParse(rooms_input))
       /\ ExtractRooms(card.header) = IntParse(rooms_input)

\* C1: every listing of the published table satisfies all active filters:
\* its room count is the target when one was supplied, its location contains
\* the district text (case-insensitively) when one was supplied, its price
\* is present and within the budget ceiling, its area is positive and its
\* price per square metre exceeds 100000.
CE_C1 ==
    Published =>
        \A i \in 1..Len(sheet.rows) :
            LET r == sheet.rows[i]
            IN  /\ rooms_input # <<>> =>
                       /\ ~IsNaN(IntParse(rooms_input))
                       /\ ExtractRooms(r.header) = IntParse(rooms_input)
                /\ location_input # <<>> =>
                       Contains(LowerText(r.location), LowerText(location_input))
                /\ ~IsNaN(PriceClean(r.price))
                /\ Val(PriceClean(r.price)) <= max_price
                /\ Val(r.sqm) > 0
                /\ r.price_per_m2 > SanityFloor

\* C2: after deduplication the frame holds, in input order, exactly the
\* first listing of every link among the listings that passed the room
\* filter; no two of its rows share a link; deduplicating it again changes
\* nothing.
Theorem_C2 ==
    pc = "location" =>
        /\ \A i \in 1..Len(all_data) :
               InFrame(i) <=>
                   /\ PassesRoomFilter(all_data[i])
                   /\ \A j \in 1..(i - 1) :
                          PassesRoomFilter(all_data[j])
                              => all_data[j].link # all_data[i].link
        /\ \A k \in 1..Len(df) :
               /\ df[k].link = all_data[df[k].index + 1].link
               /\ df[k].header = all_data[df[k].index + 1].header
        /\ \A k, l \in 1..Len(df) :
               /\ k < l => df[k].index < df[l].index
               /\ k # l => df[k].link # df[l].link
        /\ DropDuplicates(df) = df

\* a later listing with the link of an earlier one passed the room filter
\* and was dropped, while a listing of the other room count came first
Witness_C2 ==
    /\ pc = "location"
    /\ rooms_input = <<"2">>
    /\ Len(all_data) = 3
    /\ all_data[1].link = all_data[2].link
    /\ all_data[2].link = all_data[3].link
    /\ ~PassesRoomFilter(all_data[1])
    /\ PassesRoomFilter(all_data[2])
    /\ PassesRoomFilter(all_data[3])
    /\ Len(df) = 1
    /\ df[1].index = 1

\* C3 as stated: a second IQR pass over the output of the first removes
\* nothing.
CE_C3 == [][pc = "iqr_once" => df' = df]_vars

\* C3 as amended: on a collection of at most four values a second IQR pass
\* over the output of the first removes nothing.
Theorem_C3 == [][(pc = "iqr_in" /\ Len(df) <= 4) => IQRFilter(df') = df']_vars

\* the first pass removed the first value, the second ran on the three left
Witness_C3 ==
    /\ pc = "iqr_twice"
    /\ Len(df) = 3
    /\ \A k \in 1..3 : df[k].index = k

MaxPpa == CHOOSE v \in {df[i].price_per_m2 : i \in 1..Len(df)} :
              \A i \in 1..Len(df) : df[i].price_per_m2 <= v

MinPpa == CHOOSE v \in {df[i].price_per_m2 : i \in 1..Len(df)} :
              \A i \in 1..Len(df) : df[i].price_per_m2 >= v

\* C4 as stated: every liquidity score lies in [0, 1], the cheapest listing
\* per square metre has 1 and the dearest has 0 (the cheapest is held to 1
\* only where it is not also the dearest).
CE_C4 ==
    (Scored /\ df # <<>>) =>
        \A i \in 1..Len(df) :
            /\ df[i].liquidity_score >= 0
            /\ df[i].liquidity_score <= ScoreScale
            /\ (df[i].price_per_m2 = MinPpa /\ MinPpa < MaxPpa)
                   => df[i].liquidity_score = ScoreScale
            /\ df[i].price_per_m2 = MaxPpa => df[i].liquidity_score = 0

\* C4 as amended: every liquidity score lies in [0, 1], the dearest listing
\* has 0, and the cheapest has the largest score of the collection, which
\* is (max - min) / max (to the nearest unit) and below 1.
Theorem_C4 ==
    (Scored /\ df # <<>>) =>
        \A i \in 1..Len(df) :
            /\ df[i].liquidity_score >= 0
            /\ df[i].liquidity_score <= ScoreScale
            /\ df[i].price_per_m2 = MaxPpa => df[i].liquidity_score = 0
            /\ df[i].price_per_m2 = MinPpa =>
                   /\ 2 * Abs(df[i].liquidity_score * MaxPpa
                              - (MaxPpa - MinPpa) * ScoreScale) <= MaxPpa
                   /\ df[i].liquidity_score < ScoreScale
                   /\ \A j \in 1..Len(df) :
                          df[j].liquidity_score <= df[i].liquidity_score

\* the example of the claim, published: 200000, 205000 and 210000
Witness_C4 ==
    /\ pc = "done"
    /\ {df[i].price_per_m2 : i \in 1..Len(df)} = {200000, 205000, 210000}
    /\ \E i \in 1..Len(df) :
           /\ df[i].price_per_m2 = 200000
           /\ df[i].liquidity_score > 0
           /\ df[i].liquidity_score < ScoreScale

\* C5 as stated: in every published row investment_score is the published
\* deviation column (the seventh, z_score) plus liquidity_score plus three
\* times center_score.
CE_C5 ==
    Published =>
        \A i \in 1..Len(sheet.rows) :
            LET r == sheet.rows[i]
            IN  r.investment_score =
                    r.z_score + r.liquidity_score + 3 * ScoreScale * r.center_score

\* C5 as amended: in every published row investment_score is minus the
\* published z_score plus liquidity_score plus three times center_score.
Theorem_C5 ==
    Published =>
        \A i \in 1..Len(sheet.rows) :
            LET r == sheet.rows[i]
            IN  r.investment_score =
                    (0 - r.z_score) + r.liquidity_score
                        + 3 * ScoreScale * r.center_score

\* a published central listing with a non-zero z_score and liquidity
Witness_C5 ==
    /\ pc = "done"
    /\ \E i \in 1..Len(sheet.rows) :
           /\ sheet.rows[i].z_score # 0
           /\ sheet.rows[i].liquidity_score # 0
           /\ sheet.rows[i].center_score = 1

PositionOf(rows, idx) == CHOOSE k \in 1..Len(rows) : rows[k].index = idx

\* C6: the sort leaves a permutation of the scored frame in non-increasing
\* order of investment_score with equal scores in their earlier relative
\* order; the published rows follow that order and the top block is its
\* first min(5, size) rows.
CE_C6 ==
    [][/\ pc = "sort" =>
              /\ Len(df') = Len(df)
              /\ \A i \in 1..Len(df) : \E k \in 1..Len(df') : df'[k] = df[i]
              /\ \A k \in 1..(Len(df') - 1) :
                     df'[k].investment_score >= df'[k + 1].investment_score
              /\ \A i, j \in 1..Len(df) :
                     (i < j /\ df[i].investment_score = df[j].investment_score)
                         => PositionOf(df', df[i].index) < PositionOf(df', df[j].index)
       /\ pc = "publish" =>
              /\ Len(sheet'.rows) = Len(df)
              /\ \A k \in 1..Len(df) : sheet'.rows[k].link = df[k].link
       /\ pc = "summary" =>
              top' = SubSeq(df, 1, IF Len(df) < 5 THEN Len(df) ELSE 5)]_vars

\* C7: on a collection of one listing, or of listings that all share one
\* price per square metre, every deviation score and every liquidity score
\* is 0.
CE_C7 ==
    (Scored /\ df # <<>> /\ MinPpa = MaxPpa) =>
        \A i \in 1..Len(df) :
            /\ df[i].undervaluation_score = 0
            /\ df[i].z_score = 0
            /\ df[i].liquidity_score = 0

\* C8: when the scrape finds nothing or a filter empties the frame, the run
\* ends normally with an empty frame, the worksheet holds the header row
\* and no data row, and the three averages are zero.
CE_C8 ==
    (pc \in {"exit", "done"} /\ df = <<>>) =>
        /\ pc = "done"
        /\ sheet = [header |-> HeaderRow, rows |-> <<>>]
        /\ summary = [avg_price |-> Some(0), avg_sqm |-> Some(0),
                      avg_price_m2 |-> Some(0)]

\* C9: whatever text the user supplies, the run never ends in an uncaught
\* error.
CE_C9 == pc # "error"

StaysInFrame(r) == \E k \in 1..Len(df') : df'[k].index = r.index

\* C10 as stated: without a valid budget the budget stage keeps exactly the
\* listings whose price is present; with a valid budget B exactly those
\* with a present price <= B.
CE_C10 ==
    [][pc = "price" =>
           \A i \in 1..Len(df) :
               StaysInFrame(df[i]) <=>
                   /\ ~IsNaN(PriceClean(df[i].price))
                   /\ ~IsNaN(IntParse(price_input)) =>
                          Val(PriceClean(df[i].price)) <= Val(IntParse(price_input))]_vars

\* C10 as amended: without a valid budget the budget stage keeps exactly
\* the listings whose price is present and <= 500000000; with a valid
\* budget B exactly those with a present price <= B.
Theorem_C10 ==
    [][pc = "price" =>
           \A i \in 1..Len(df) :
               StaysInFrame(df[i]) <=>
                   /\ ~IsNaN(PriceClean(df[i].price))
                   /\ Val(PriceClean(df[i].price)) <=
                          (IF IsNaN(IntParse(price_input)) THEN 500000000
                           ELSE Val(IntParse(price_input)))]_vars

\* no budget was typed; a listing of 600000000 reached the budget stage and
\* was dropped there, the listing after it was kept
Witness_C10 ==
    /\ pc = "sqm"
    /\ price_input = <<>>
    /\ rooms_input = <<>>
    /\ location_input = <<>>
    /\ Len(all_data) = 2
    /\ PriceClean(all_data[1].price) = Some(600000000)
    /\ all_data[1].link # all_data[2].link
    /\ Len(df) = 1
    /\ df[1].index = 1

==========================================================================
